---------------------------- MODULE Spec2Model ----------------------------
(***************************************************************************)
(* delayshield: the recalculation engine of services/worker/src/tasks.py   *)
(* (quota ledger, recalculator, scanner) and the two facade operations of  *)
(* services/api/src/main.py that create and re-enqueue trips.              *)
(*                                                                         *)
(* The database is modelled at READ COMMITTED: a statement sees what was   *)
(* committed when it runs, SELECT ... FOR UPDATE and INSERT of an existing *)
(* uncommitted key block on the row, a commit makes a transaction's writes *)
(* visible and releases its row locks.  Times are integer seconds.         *)
(***************************************************************************)
EXTENDS Integers, Sequences, FiniteSets, TLC

(***************************************************************************)
(* Bounds of the model.                                                    *)
(***************************************************************************)
\* Wall-clock second at which the system starts, 110 s before a day ends:
\* an advance of 60 s (ledger harness) enters the next minute bucket, one
\* of 2700 s (system) enters the next day as well.
StartClock == 86290
\* Number of clock advances.
MaxTicks == 1
\* Number of facade POST /api/trips/{id}/recalc calls.
MaxRecalcNow == 1
\* Number of consume calls issued by the ledger harness (SpecLedger).
MaxCalls == 2
\* Number of recalc_trip tasks the workers run.
MaxJobs == 2
\* Configured quota limits (environment; the defaults are 400/20/800/30).
ROUTE_DAILY_LIMIT == 1
ROUTE_PER_MIN_LIMIT == 1
OWM_DAILY_LIMIT == 2
OWM_PER_MIN_LIMIT == 1

(***************************************************************************)
(* Program constants.                                                      *)
(***************************************************************************)
SCAN_INTERVAL_SECONDS == 60
ScanBatchLimit == 50
BudgetBackoffSeconds == 45 * 60
DefaultOwmCap == 30
DefaultRouteCap == 15
SecondsPerDay == 24 * 3600

Trips == {"t1", "t2"}
Workers == {"w1", "w2"}
Scanners == {"s1", "s2"}
Apis == {"owm", "route"}
PolicyModes == {"conservative", "balanced", "aggressive"}

GREEN == "green"
YELLOW == "yellow"
RED == "red"

\* A nullable column holds NULL or Some(v).
NULL == <<>>
Some(v) == <<v>>
Val(x) == x[1]

Max(a, b) == IF a >= b THEN a ELSE b
Min(a, b) == IF a <= b THEN a ELSE b

\* Python 3 round(n/d) for d > 0: nearest integer, ties to the even one.
RoundHalfEven(n, d) ==
  LET q == n \div d
      r == n % d
  IN  IF 2 * r < d THEN q
      ELSE IF 2 * r > d THEN q + 1
      ELSE IF q % 2 = 0 THEN q ELSE q + 1

(***************************************************************************)
(* Pure functions of tasks.py.  Severity is carried in hundredths          *)
(* (sev = 80 is 0.80), risk in hundredths of a percent.                    *)
(***************************************************************************)
\* datetime.replace(second=0, microsecond=0)
minute_bucket(dt) == dt - (dt % 60)

\* date.today(): the calendar day of the wall clock
today(dt) == dt \div SecondsPerDay

\* Variant: the 0.40 band reaches down to two hours late.
BaseRisk_latetolerant(slack_s) ==
  IF slack_s >= 4 * 3600 THEN 10
  ELSE IF slack_s >= 2 * 3600 THEN 20
  ELSE IF slack_s >= -2 * 3600 THEN 40
  ELSE 85

BaseRisk(slack_s) ==
  IF slack_s >= 4 * 3600 THEN 10
  ELSE IF slack_s >= 2 * 3600 THEN 20
  ELSE IF slack_s >= 0 THEN 40
  ELSE IF slack_s >= -2 * 3600 THEN 70
  ELSE 85

StatusOf(pct) == IF pct < 34 THEN GREEN ELSE IF pct < 67 THEN YELLOW ELSE RED

SuggestionOf(status) ==
  IF status = GREEN THEN "Manter rota. Recalcular mais perto do prazo."
  ELSE IF status = YELLOW
    THEN "Considere antecipar saida e avisar cliente sobre possivel variacao."
  ELSE "ALTO risco: antecipar/alternar rota e ALERTAR cliente agora."

\* risk * 100 is computed in binary floating point.  Where the exact value
\* of (base + 0.25 * sev) * 100 is a tie k + 0.5, the float is the tie
\* itself or a neighbour of it, and round() goes to the even integer, up or
\* down accordingly.  For sev in whole hundredths these are the pairs
\* <<base * 100, sev>> whose float lies above, respectively below, a tie
\* that exact arithmetic rounds the other way.
FloatAboveTie ==
  {<<10, 2>>, <<10, 18>>, <<10, 74>>, <<20, 34>>, <<20, 90>>, <<40, 10>>, <<40, 34>>,
   <<40, 58>>, <<40, 66>>}
FloatBelowTie == {<<40, 70>>, <<70, 30>>, <<70, 86>>}

\* int(round(risk * 100)) for base and sev in hundredths.
RiskPct(base, sev) ==
  LET r10000 == Min(9900, Max(0, base * 100 + 25 * sev))
      exact == RoundHalfEven(r10000, 100)
  IN  IF <<base, sev>> \in FloatAboveTie THEN exact + 1
      ELSE IF <<base, sev>> \in FloatBelowTie THEN exact - 1
      ELSE exact

risk(deadline, eta, sev) ==
  LET slack_s == deadline - eta
      pct == RiskPct(BaseRisk(slack_s), sev)
      buffer_minutes == RoundHalfEven(slack_s, 60)
      status == StatusOf(pct)
  IN  [pct |-> pct, status |-> status, buffer_minutes |-> buffer_minutes,
       why |-> [buffer |-> buffer_minutes, weather_sev |-> sev],
       suggestion |-> SuggestionOf(status)]

recommend_depart(now, status, buffer_minutes) ==
  IF status = GREEN THEN now
  ELSE IF status = YELLOW
    THEN now - 60 * (IF buffer_minutes < 120 THEN 30 ELSE 15)
  ELSE now - 60 * (IF buffer_minutes < 60 THEN 60 ELSE 30)

\* strftime("%Y-%m-%d %H:%M UTC") keeps the minute and drops the seconds.
customer_message(status, eta, deadline, why, suggestion) ==
  [status |-> status, eta_s |-> eta \div 60,
   dl_s |-> deadline \div 60, why |-> why, suggestion |-> suggestion]

\* Variant: the interval table alone, whatever budget_limited is.
next_interval_seconds_nobackoff(mode, status, budget_limited) ==
  IF mode = "conservative"
    THEN (IF status = GREEN THEN 60 * 60 ELSE IF status = YELLOW THEN 25 * 60 ELSE 8 * 60)
  ELSE IF mode = "aggressive"
    THEN (IF status = GREEN THEN 20 * 60 ELSE IF status = YELLOW THEN 8 * 60 ELSE 2 * 60)
  ELSE (IF status = GREEN THEN 40 * 60 ELSE IF status = YELLOW THEN 15 * 60 ELSE 5 * 60)

\* Variant: the aggressive row is not matched and takes the balanced values.
next_interval_seconds_noaggressive(mode, status, budget_limited) ==
  IF budget_limited THEN BudgetBackoffSeconds
  ELSE IF mode = "conservative"
    THEN (IF status = GREEN THEN 60 * 60 ELSE IF status = YELLOW THEN 25 * 60 ELSE 8 * 60)
  ELSE (IF status = GREEN THEN 40 * 60 ELSE IF status = YELLOW THEN 15 * 60 ELSE 5 * 60)

next_interval_seconds(mode, status, budget_limited) ==
  IF budget_limited THEN BudgetBackoffSeconds
  ELSE IF mode = "conservative"
    THEN (IF status = GREEN THEN 60 * 60 ELSE IF status = YELLOW THEN 25 * 60 ELSE 8 * 60)
  ELSE IF mode = "aggressive"
    THEN (IF status = GREEN THEN 20 * 60 ELSE IF status = YELLOW THEN 8 * 60 ELSE 2 * 60)
  ELSE (IF status = GREEN THEN 40 * 60 ELSE IF status = YELLOW THEN 15 * 60 ELSE 5 * 60)


(***************************************************************************)
(* State.                                                                  *)
(***************************************************************************)
VARIABLES
  clock,                 \* the wall clock, in seconds
  nticks,                \* clock advances so far
  trips,                 \* table trips: id -> row
  trip_updates,          \* table trip_updates, per trip in commit order
  api_usage_daily,       \* table api_usage_daily: row key -> calls
  api_usage_minute,      \* table api_usage_minute: row key -> calls
  trip_api_usage_daily,  \* table trip_api_usage_daily: row key -> the two counters
  broker,                \* recalc_trip messages waiting on the broker, per trip
  wk,                    \* the worker processes: position and locals of the running task
  sc,                    \* the scan_due_trips instances: position and locals
  nrecalc,               \* facade recalc calls so far
  ncalls,                \* harness consume calls so far
  jobs,                  \* history: one record per recalc_trip task started
  approved               \* history: amount approved so far, per counter

vars == <<clock, nticks, trips, trip_updates, api_usage_daily, api_usage_minute,
          trip_api_usage_daily, broker, wk, sc, nrecalc, ncalls, jobs, approved>>

ledger == <<api_usage_daily, api_usage_minute, trip_api_usage_daily>>

Get(f, k) == IF k \in DOMAIN f THEN f[k] ELSE 0
Put(f, k, v) == [x \in DOMAIN f \cup {k} |-> IF x = k THEN v ELSE f[x]]

\* Primary keys of the three counter tables; a key also names the row in
\* the lock table and in a transaction's uncommitted inserts.
DailyRef(api_name, d) == <<"api_usage_daily", api_name, d>>
MinuteRef(api_name, mb) == <<"api_usage_minute", api_name, mb>>
TripDayRef(tid, d) == <<"trip_api_usage_daily", tid, d>>

RowExists(ref) ==
  \/ ref \in DOMAIN api_usage_daily
  \/ ref \in DOMAIN api_usage_minute
  \/ ref \in DOMAIN trip_api_usage_daily

\* A trip_updates row; tag is the payload's discriminating value (by, api
\* or stage), job the task that appended it (history, 0 outside tasks).
Event(kind, tag, amount, job) == [kind |-> kind, tag |-> tag, amount |-> amount, job |-> job]

Append1(tid, ev) == [trip_updates EXCEPT ![tid] = Append(@, ev)]

\* A worker with no task.
IdleWorker ==
  [pc |-> "idle", caller |-> "", job |-> 0, tid |-> "", now |-> 0,
   api |-> "", amount |-> 0, d |-> 0, mb |-> 0,
   daily_limit |-> 0, per_min |-> 0, trip_cap |-> 0,
   blocked |-> FALSE, ins |-> {}, lk |-> {},
   gd |-> 0, gm |-> 0, tu |-> 0, ok |-> FALSE, reason |-> "",
   need_route |-> FALSE, dist_m |-> NULL, dur_s |-> NULL, geom |-> NULL,
   budget_limited |-> FALSE]

\* A scanner with no scan; seen is history: the length of each selected
\* trip's event log when the SELECT ran.
IdleScanner == [pc |-> "idle", now |-> 0, rows |-> <<>>, seen |-> <<>>]

\* Workers are interchangeable: a free worker takes the next task only if
\* no worker before it is free.
FirstFree(w) == w = "w1" \/ wk["w1"].pc # "idle"

\* History of task j.
JobSet(j, field, v) == IF j = 0 THEN jobs ELSE [jobs EXCEPT ![j][field] = v]
JobInc(j, field) == IF j = 0 THEN jobs ELSE [jobs EXCEPT ![j][field] = @ + 1]

(***************************************************************************)
(* Quota ledger: _consume_budget.                                          *)
(***************************************************************************)
\* Variant: a denied route budget does not end the route stage.
AfterConsume_nostop(r, ok) ==
  IF r.caller = "harness" THEN "h_ret"
  ELSE IF r.api = "route" THEN "route_call"
  ELSE (IF ok THEN "finish" ELSE "owm_denied")

\* Where a task continues when consume returns.
AfterConsume(r, ok) ==
  IF r.caller = "harness" THEN "h_ret"
  ELSE IF r.api = "route" THEN (IF ok THEN "route_call" ELSE "route_denied")
  ELSE (IF ok THEN "finish" ELSE "owm_denied")

\* Lines 115-126: the call reads the clock and the limits of its api.  The
\* trip caps never change in this model, so the cap is read from the row.
consume_enter(r, api_name, amount) ==
  [r EXCEPT !.pc = "c_ens_d", !.api = api_name, !.amount = amount,
            !.d = today(clock), !.mb = minute_bucket(clock),
            !.daily_limit = IF api_name = "owm" THEN OWM_DAILY_LIMIT ELSE ROUTE_DAILY_LIMIT,
            !.per_min = IF api_name = "owm" THEN OWM_PER_MIN_LIMIT ELSE ROUTE_PER_MIN_LIMIT,
            !.trip_cap = IF api_name = "owm" THEN trips[r.tid].trip_owm_daily_cap
                         ELSE trips[r.tid].trip_route_daily_cap,
            !.blocked = FALSE, !.ok = FALSE, !.reason = "",
            !.gd = 0, !.gm = 0, !.tu = 0]

\* An exception leaves the task: the session is closed, which rolls back its
\* open transaction (uncommitted inserts, row locks); the worker is free again.
Raise(w) ==
  /\ wk' = [wk EXCEPT ![w] = IdleWorker]
  /\ jobs' = JobSet(wk[w].job, "outcome", "raised")

PendingElsewhere(w, ref) == \E o \in Workers \ {w} : ref \in wk[o].ins

\* _ensure_usage_row_*: SELECT the row; INSERT it with calls = 0 if the SELECT
\* found none.  A row inserted by a transaction still open is invisible to
\* the SELECT, and the INSERT of the same key waits for that transaction:
\* it fails with a unique violation if that transaction commits.
ensure_row(w, ref, nextpc) ==
  LET r == wk[w] IN
  IF RowExists(ref)
    THEN IF r.blocked
           THEN Raise(w)
           ELSE wk' = [wk EXCEPT ![w].pc = nextpc] /\ UNCHANGED jobs
    ELSE IF PendingElsewhere(w, ref)
           THEN ~r.blocked /\ wk' = [wk EXCEPT ![w].blocked = TRUE] /\ UNCHANGED jobs
           ELSE /\ wk' = [wk EXCEPT ![w].ins = @ \cup {ref}, ![w].blocked = FALSE,
                                     ![w].pc = nextpc]
                /\ UNCHANGED jobs

c_ens_d(w) ==
  /\ wk[w].pc = "c_ens_d"
  /\ ensure_row(w, DailyRef(wk[w].api, wk[w].d), "c_ens_m")
  /\ UNCHANGED <<clock, nticks, trips, trip_updates, ledger, broker, sc, nrecalc, ncalls,
                 approved>>

c_ens_m(w) ==
  /\ wk[w].pc = "c_ens_m"
  /\ ensure_row(w, MinuteRef(wk[w].api, wk[w].mb), "c_ens_t")
  /\ UNCHANGED <<clock, nticks, trips, trip_updates, ledger, broker, sc, nrecalc, ncalls,
                 approved>>

c_ens_t(w) ==
  /\ wk[w].pc = "c_ens_t"
  /\ ensure_row(w, TripDayRef(wk[w].tid, wk[w].d), "c_commit")
  /\ UNCHANGED <<clock, nticks, trips, trip_updates, ledger, broker, sc, nrecalc, ncalls,
                 approved>>

OfTable(refs, name) == {x \in refs : x[1] = name}
AddRows(tbl, refs, zero) ==
  [k \in DOMAIN tbl \cup refs |-> IF k \in DOMAIN tbl THEN tbl[k] ELSE zero]

\* Variant: every other task takes the first two locks in the other order.
LockOrder_alternating(r, pc) ==
  IF r.job % 2 = 0
    THEN (IF pc = "c_commit" THEN "c_lock_m" ELSE IF pc = "c_lock_m" THEN "c_lock_d"
          ELSE "c_lock_t")
    ELSE (IF pc = "c_commit" THEN "c_lock_d" ELSE IF pc = "c_lock_d" THEN "c_lock_m"
          ELSE "c_lock_t")

\* Lines 133-135: the three SELECT ... FOR UPDATE run in the order daily
\* row, minute row, trip row; the step that follows step pc of call r.
LockOrder(r, pc) ==
  IF pc = "c_commit" THEN "c_lock_d" ELSE IF pc = "c_lock_d" THEN "c_lock_m" ELSE "c_lock_t"

\* Line 131: db.commit() makes the inserted rows visible.
c_commit(w) ==
  /\ wk[w].pc = "c_commit"
  /\ api_usage_daily' = AddRows(api_usage_daily, OfTable(wk[w].ins, "api_usage_daily"), 0)
  /\ api_usage_minute' = AddRows(api_usage_minute, OfTable(wk[w].ins, "api_usage_minute"), 0)
  /\ trip_api_usage_daily' =
       AddRows(trip_api_usage_daily, OfTable(wk[w].ins, "trip_api_usage_daily"),
               [owm_calls |-> 0, route_calls |-> 0])
  /\ wk' = [wk EXCEPT ![w].ins = {}, ![w].pc = LockOrder(wk[w], "c_commit")]
  /\ UNCHANGED <<clock, nticks, trips, trip_updates, broker, sc, nrecalc, ncalls, jobs,
                 approved>>

\* Variant: SELECT without FOR UPDATE, which waits for nobody.
CanLock_none(w, ref) == TRUE

\* SELECT ... FOR UPDATE returns once no other transaction holds the row.
CanLock(w, ref) == \A o \in Workers \ {w} : ref \notin wk[o].lk

\* Line 133: gd is read under its row lock.
c_lock_d(w) ==
  LET ref == DailyRef(wk[w].api, wk[w].d) IN
  /\ wk[w].pc = "c_lock_d"
  /\ CanLock(w, ref)
  /\ wk' = [wk EXCEPT ![w].lk = @ \cup {ref}, ![w].gd = api_usage_daily[ref],
                      ![w].pc = LockOrder(wk[w], "c_lock_d")]
  /\ UNCHANGED <<clock, nticks, trips, trip_updates, ledger, broker, sc, nrecalc, ncalls,
                 jobs, approved>>

\* Line 134: gm is read under its row lock.
c_lock_m(w) ==
  LET ref == MinuteRef(wk[w].api, wk[w].mb) IN
  /\ wk[w].pc = "c_lock_m"
  /\ CanLock(w, ref)
  /\ wk' = [wk EXCEPT ![w].lk = @ \cup {ref}, ![w].gm = api_usage_minute[ref],
                      ![w].pc = LockOrder(wk[w], "c_lock_m")]
  /\ UNCHANGED <<clock, nticks, trips, trip_updates, ledger, broker, sc, nrecalc, ncalls,
                 jobs, approved>>

TripColumn(api_name) == IF api_name = "owm" THEN "owm_calls" ELSE "route_calls"

\* Variant: the per-minute check is skipped.
consume_decide_nominute(gdc, gmc, tuc, api_name, amount, daily_limit, per_min, trip_cap) ==
  IF gdc + amount > daily_limit
    THEN [ok |-> FALSE, reason |-> "global_daily_limit", gd |-> gdc, gm |-> gmc, tu |-> tuc]
  ELSE IF tuc + amount > trip_cap
    THEN [ok |-> FALSE, reason |-> "trip_daily_cap", gd |-> gdc, gm |-> gmc, tu |-> tuc]
  ELSE [ok |-> TRUE, reason |-> "ok", gd |-> gdc + amount, gm |-> gmc + amount,
        tu |-> tuc + amount]

\* Variant: each counter is incremented as soon as its own check passes.
consume_decide_eager(gdc, gmc, tuc, api_name, amount, daily_limit, per_min, trip_cap) ==
  IF gdc + amount > daily_limit
    THEN [ok |-> FALSE, reason |-> "global_daily_limit", gd |-> gdc, gm |-> gmc, tu |-> tuc]
  ELSE IF gmc + amount > per_min
    THEN [ok |-> FALSE, reason |-> "per_min_limit", gd |-> gdc + amount, gm |-> gmc,
          tu |-> tuc]
  ELSE IF tuc + amount > trip_cap
    THEN [ok |-> FALSE, reason |-> "trip_daily_cap", gd |-> gdc + amount,
          gm |-> gmc + amount, tu |-> tuc]
  ELSE [ok |-> TRUE, reason |-> "ok", gd |-> gdc + amount, gm |-> gmc + amount,
        tu |-> tuc + amount]

\* Variant: the amount is subtracted from the three counters.
consume_decide_subtract(gdc, gmc, tuc, api_name, amount, daily_limit, per_min, trip_cap) ==
  IF gdc + amount > daily_limit
    THEN [ok |-> FALSE, reason |-> "global_daily_limit", gd |-> gdc, gm |-> gmc, tu |-> tuc]
  ELSE IF gmc + amount > per_min
    THEN [ok |-> FALSE, reason |-> "per_min_limit", gd |-> gdc, gm |-> gmc, tu |-> tuc]
  ELSE IF tuc + amount > trip_cap
    THEN [ok |-> FALSE, reason |-> "trip_daily_cap", gd |-> gdc, gm |-> gmc, tu |-> tuc]
  ELSE [ok |-> TRUE, reason |-> "ok", gd |-> gdc - amount, gm |-> gmc - amount,
        tu |-> tuc - amount]

\* Lines 137-149: the three checks in order, then the three increments.
\* The result holds the verdict and the counter values the session holds
\* when the function returns or commits.
consume_decide(gdc, gmc, tuc, api_name, amount, daily_limit, per_min, trip_cap) ==
  IF gdc + amount > daily_limit
    THEN [ok |-> FALSE, reason |-> "global_daily_limit", gd |-> gdc, gm |-> gmc, tu |-> tuc]
  ELSE IF gmc + amount > per_min
    THEN [ok |-> FALSE, reason |-> "per_min_limit", gd |-> gdc, gm |-> gmc, tu |-> tuc]
  ELSE IF api_name = "owm" /\ tuc + amount > trip_cap
    THEN [ok |-> FALSE, reason |-> "trip_daily_cap", gd |-> gdc, gm |-> gmc, tu |-> tuc]
  ELSE IF api_name = "route" /\ tuc + amount > trip_cap
    THEN [ok |-> FALSE, reason |-> "trip_daily_cap", gd |-> gdc, gm |-> gmc, tu |-> tuc]
  ELSE [ok |-> TRUE, reason |-> "ok", gd |-> gdc + amount, gm |-> gmc + amount,
        tu |-> tuc + amount]

\* The UPDATEs a commit flushes for the three counter objects of worker
\* record r: each sets the column to the value the session holds.
FlushDaily(r) == [api_usage_daily EXCEPT ![DailyRef(r.api, r.d)] = r.gd]
FlushMinute(r) == [api_usage_minute EXCEPT ![MinuteRef(r.api, r.mb)] = r.gm]
\* Variant: the trip row is left as it is.
FlushTrip_none(r) == trip_api_usage_daily

FlushTrip(r) ==
  [trip_api_usage_daily EXCEPT ![TripDayRef(r.tid, r.d)][TripColumn(r.api)] = r.tu]

\* Lines 135-150: tu is read under its row lock, the caps are checked; a
\* denial returns with the three locks held, an approval commits.
c_lock_t(w) ==
  LET r == wk[w]
      ref == TripDayRef(r.tid, r.d)
      tuc == trip_api_usage_daily[ref][TripColumn(r.api)]
      out == consume_decide(r.gd, r.gm, tuc, r.api, r.amount, r.daily_limit, r.per_min,
                            r.trip_cap)
      s == [r EXCEPT !.gd = out.gd, !.gm = out.gm, !.tu = out.tu, !.ok = out.ok,
                     !.reason = out.reason]
  IN
  /\ r.pc = "c_lock_t"
  /\ CanLock(w, ref)
  /\ IF out.ok
       THEN /\ api_usage_daily' = FlushDaily(s)
            /\ api_usage_minute' = FlushMinute(s)
            /\ trip_api_usage_daily' = FlushTrip(s)
            /\ wk' = [wk EXCEPT ![w] = [s EXCEPT !.lk = {}, !.pc = "c_audit"]]
            /\ approved' =
                 LET a1 == Put(approved, <<DailyRef(r.api, r.d), r.api>>,
                               Get(approved, <<DailyRef(r.api, r.d), r.api>>) + r.amount)
                     a2 == Put(a1, <<MinuteRef(r.api, r.mb), r.api>>,
                               Get(a1, <<MinuteRef(r.api, r.mb), r.api>>) + r.amount)
                 IN  Put(a2, <<ref, r.api>>, Get(a2, <<ref, r.api>>) + r.amount)
            /\ jobs' = JobInc(r.job, IF r.api = "route" THEN "route_approved"
                                     ELSE "owm_approved")
       ELSE /\ wk' = [wk EXCEPT ![w] = [s EXCEPT !.lk = @ \cup {ref},
                                                 !.pc = AfterConsume(r, FALSE)]]
            /\ jobs' = JobInc(r.job, IF r.api = "route" THEN "route_denied"
                                     ELSE "owm_denied")
            /\ UNCHANGED <<ledger, approved>>
  /\ UNCHANGED <<clock, nticks, trips, trip_updates, broker, sc, nrecalc, ncalls>>

\* Lines 152-154: the audit event, in a transaction of its own.
c_audit(w) ==
  LET r == wk[w] IN
  /\ r.pc = "c_audit"
  /\ trip_updates' = Append1(r.tid, Event("budget_consume", r.api, r.amount, r.job))
  /\ wk' = [wk EXCEPT ![w].pc = AfterConsume(r, TRUE)]
  /\ UNCHANGED <<clock, nticks, trips, ledger, broker, sc, nrecalc, ncalls, jobs,
                 approved>>

\* The caller's next db.commit(): flushes the session and releases the locks
\* a denial left held.
CallerCommit(r) ==
  /\ api_usage_daily' = (IF r.lk = {} THEN api_usage_daily ELSE FlushDaily(r))
  /\ api_usage_minute' = (IF r.lk = {} THEN api_usage_minute ELSE FlushMinute(r))
  /\ trip_api_usage_daily' = (IF r.lk = {} THEN trip_api_usage_daily ELSE FlushTrip(r))

(***************************************************************************)
(* The clock.                                                              *)
(***************************************************************************)
\* Time passes between any two steps; each task and each consume call
\* reads the clock once, when it starts.
Tick(step) ==
  /\ nticks < MaxTicks
  /\ clock' = clock + step
  /\ nticks' = nticks + 1
  /\ UNCHANGED <<trips, trip_updates, ledger, broker, wk, sc, nrecalc, ncalls, jobs,
                 approved>>

(***************************************************************************)
(* Trip rows.                                                              *)
(***************************************************************************)
\* The row INSERTed by create_trip (main.py 218-227); the columns it does
\* not name are NULL.
NewTrip(body, now) ==
  [deadline_at |-> body.deadline_at, points_n |-> body.points_n,
   eta_at |-> NULL, route_distance_m |-> NULL, route_duration_s |-> NULL,
   route_geojson |-> NULL, buffer_minutes |-> NULL, delay_risk_pct |-> NULL,
   status |-> NULL, suggestion |-> NULL, recommended_depart_at |-> NULL,
   why |-> NULL, customer_message |-> NULL,
   policy_mode |-> body.policy_mode,
   trip_owm_daily_cap |-> body.trip_owm_daily_cap,
   trip_route_daily_cap |-> body.trip_route_daily_cap,
   next_calc_at |-> Some(now), last_calc_at |-> NULL, calc_state |-> "queued"]

\* A row written with the server defaults of the schema (tasks.py 53-59):
\* policy balanced, caps 30 and 15, calc_state idle, no next_calc_at.
SeedTrip(deadline, n) ==
  [NewTrip([deadline_at |-> deadline, points_n |-> n, policy_mode |-> "balanced",
            trip_owm_daily_cap |-> DefaultOwmCap,
            trip_route_daily_cap |-> DefaultRouteCap], 0)
   EXCEPT !.next_calc_at = NULL, !.calc_state = "idle"]

\* Request bodies of POST /api/trips (TripCreateIn): at least two waypoints.
TripCreateIn ==
  {[deadline_at |-> StartClock + 6 * 3600, points_n |-> 2, policy_mode |-> "balanced",
    trip_owm_daily_cap |-> 1, trip_route_daily_cap |-> 1],
   [deadline_at |-> StartClock - 1800, points_n |-> 3, policy_mode |-> "aggressive",
    trip_owm_daily_cap |-> 0, trip_route_daily_cap |-> 1]}

\* What the Route Client returns: distance, duration, geometry.
RouteResults ==
  {[distance_m |-> 12000, duration_s |-> 900, geometry |-> "LineString"]}

\* Severities the Forecast Client returns, in hundredths.
Severities == {0, 10, 50, 80}

RouteOf(row) ==
  [distance_m |-> row.route_distance_m, duration_s |-> row.route_duration_s,
   geometry |-> row.route_geojson]

(***************************************************************************)
(* Recalculator: recalc_trip.                                              *)
(***************************************************************************)
\* History of a task: what it loaded, asked for, called and wrote.
NewJob(tid, now) ==
  [tid |-> tid, now |-> now, outcome |-> "active", loaded |-> FALSE, populated |-> FALSE,
   snap |-> [distance_m |-> NULL, duration_s |-> NULL, geometry |-> NULL],
   wrote_route |-> [distance_m |-> NULL, duration_s |-> NULL, geometry |-> NULL],
   route_consumes |-> 0, owm_consumes |-> 0, route_approved |-> 0, route_denied |-> 0,
   owm_approved |-> 0, owm_denied |-> 0, route_calls |-> 0, forecast_calls |-> 0,
   forecast_failures |-> 0,
   budget_limited |-> FALSE, wrote_next |-> NULL]

\* Lines 275-284: a worker takes a recalc_trip message; the trip goes to
\* running whatever its state was.
recalc_start(w, tid) ==
  LET j == Len(jobs) + 1 IN
  /\ wk[w].pc = "idle"
  /\ FirstFree(w)
  /\ Len(jobs) < MaxJobs
  /\ broker[tid] > 0
  /\ broker' = [broker EXCEPT ![tid] = @ - 1]
  /\ IF tid \notin DOMAIN trips
       THEN UNCHANGED <<trips, trip_updates, wk, jobs>>
       ELSE /\ trips' = [trips EXCEPT ![tid].calc_state = "running"]
            /\ trip_updates' = Append1(tid, Event("recalc_running", "", 0, j))
            /\ wk' = [wk EXCEPT ![w] = [IdleWorker EXCEPT !.pc = "load", !.caller = "recalc",
                                                         !.job = j, !.tid = tid,
                                                         !.now = clock]]
            /\ jobs' = Append(jobs, NewJob(tid, clock))
  /\ UNCHANGED <<clock, nticks, ledger, sc, nrecalc, ncalls, approved>>

\* Variant: the route is asked for on every recalculation.
NeedRoute_always(row) == TRUE

\* Line 294.
NeedRoute(row) == row.route_duration_s = NULL \/ row.route_geojson = NULL

\* The three route fields of the row hold values.
Populated(row) ==
  row.route_distance_m # NULL /\ row.route_duration_s # NULL /\ row.route_geojson # NULL

\* Variant: a failed stage is logged as a completed recalculation.
ErrorEvent_done(stage, job) == Event("recalc_done", stage, 0, job)

\* Lines 289 and 317: the event of a failed stage.
ErrorEvent(stage, job) == Event("recalc_error", stage, 0, job)

\* Lines 286-305 and 326-328: the trip is read again; fewer than two points
\* end the task in error; otherwise the route is taken from the row or its
\* budget is asked for.
recalc_load(w) ==
  LET r == wk[w]
      row == trips[r.tid]
      need_route == NeedRoute(row)
      s == [r EXCEPT !.need_route = need_route, !.dist_m = row.route_distance_m,
                     !.dur_s = row.route_duration_s, !.geom = row.route_geojson]
  IN
  /\ r.pc = "load"
  /\ IF row.points_n < 2
       THEN /\ trips' = [trips EXCEPT ![r.tid].calc_state = "error"]
            /\ trip_updates' = Append1(r.tid, ErrorEvent("validate", r.job))
            /\ wk' = [wk EXCEPT ![w] = IdleWorker]
            /\ jobs' = [jobs EXCEPT ![r.job].outcome = "bad-waypoints",
                                    ![r.job].loaded = TRUE]
       ELSE /\ wk' = [wk EXCEPT ![w] =
                        consume_enter(s, IF need_route THEN "route" ELSE "owm", 1)]
            /\ jobs' = [jobs EXCEPT ![r.job].loaded = TRUE,
                                    ![r.job].populated = Populated(row),
                                    ![r.job].snap = RouteOf(row),
                                    ![r.job].route_consumes = IF need_route THEN 1 ELSE 0,
                                    ![r.job].owm_consumes = IF need_route THEN 0 ELSE 1]
            /\ UNCHANGED <<trips, trip_updates>>
  /\ UNCHANGED <<clock, nticks, ledger, broker, sc, nrecalc, ncalls, approved>>

\* Variant: the denial is stored as a failure, as a failed route call is.
route_denied_as_error(w) ==
  LET r == wk[w] IN
  /\ r.pc = "route_denied"
  /\ CallerCommit(r)
  /\ trips' = [trips EXCEPT ![r.tid].calc_state = "error"]
  /\ trip_updates' = Append1(r.tid, Event("recalc_error", "route", 0, r.job))
  /\ wk' = [wk EXCEPT ![w].lk = {}, ![w].pc = "route_denied2"]
  /\ UNCHANGED <<clock, nticks, broker, sc, nrecalc, ncalls, jobs, approved>>

\* Lines 306-309: the route budget was denied.
route_denied(w) ==
  LET r == wk[w] IN
  /\ r.pc = "route_denied"
  /\ CallerCommit(r)
  /\ trips' = [trips EXCEPT ![r.tid].calc_state = "budget_limited"]
  /\ trip_updates' = Append1(r.tid, Event("budget_denied", "route", 0, r.job))
  /\ wk' = [wk EXCEPT ![w].lk = {}, ![w].pc = "route_denied2"]
  /\ UNCHANGED <<clock, nticks, broker, sc, nrecalc, ncalls, jobs, approved>>

StatusOr(row, dflt) == IF row.status = NULL THEN dflt ELSE Val(row.status)

\* Lines 310-313.
route_denied2(w) ==
  LET r == wk[w]
      row == trips[r.tid]
      next_s == next_interval_seconds(row.policy_mode, StatusOr(row, YELLOW), TRUE)
  IN
  /\ r.pc = "route_denied2"
  /\ trips' = [trips EXCEPT ![r.tid].next_calc_at = Some(r.now + next_s),
                            ![r.tid].last_calc_at = Some(r.now)]
  /\ wk' = [wk EXCEPT ![w] = IdleWorker]
  /\ jobs' = [jobs EXCEPT ![r.job].outcome = "budget_denied_route",
                          ![r.job].budget_limited = TRUE,
                          ![r.job].wrote_next = Some(r.now + next_s)]
  /\ UNCHANGED <<clock, nticks, trip_updates, ledger, broker, sc, nrecalc, ncalls, approved>>

\* Lines 315-320 and 326-328: the Route Client answers or fails.
route_call(w) ==
  LET r == wk[w] IN
  /\ r.pc = "route_call"
  /\ \/ \E res \in RouteResults :
          /\ wk' = [wk EXCEPT ![w] =
                      consume_enter([r EXCEPT !.dist_m = Some(res.distance_m),
                                              !.dur_s = Some(res.duration_s),
                                              !.geom = Some(res.geometry)], "owm", 1)]
          /\ jobs' = [jobs EXCEPT ![r.job].route_calls = @ + 1,
                                  ![r.job].owm_consumes = @ + 1]
          /\ UNCHANGED <<trips, trip_updates>>
     \/ /\ trips' = [trips EXCEPT ![r.tid].calc_state = "error"]
        /\ trip_updates' = Append1(r.tid, ErrorEvent("route", r.job))
        /\ wk' = [wk EXCEPT ![w].pc = "route_failed2"]
        /\ jobs' = [jobs EXCEPT ![r.job].route_calls = @ + 1]
  /\ UNCHANGED <<clock, nticks, ledger, broker, sc, nrecalc, ncalls, approved>>

\* Variant: the failure is rescheduled as a budget denial is.
route_failed2_backoff(w) ==
  LET r == wk[w]
      row == trips[r.tid]
      next_s == next_interval_seconds(row.policy_mode, StatusOr(row, YELLOW), TRUE)
  IN
  /\ r.pc = "route_failed2"
  /\ trips' = [trips EXCEPT ![r.tid].next_calc_at = Some(r.now + next_s),
                            ![r.tid].last_calc_at = Some(r.now)]
  /\ wk' = [wk EXCEPT ![w] = IdleWorker]
  /\ jobs' = [jobs EXCEPT ![r.job].outcome = "route_error",
                          ![r.job].wrote_next = Some(r.now + next_s)]
  /\ UNCHANGED <<clock, nticks, trip_updates, ledger, broker, sc, nrecalc, ncalls, approved>>

\* Lines 321-324.
route_failed2(w) ==
  LET r == wk[w]
      row == trips[r.tid]
      next_s == next_interval_seconds(row.policy_mode, StatusOr(row, YELLOW), FALSE)
  IN
  /\ r.pc = "route_failed2"
  /\ trips' = [trips EXCEPT ![r.tid].next_calc_at = Some(r.now + next_s),
                            ![r.tid].last_calc_at = Some(r.now)]
  /\ wk' = [wk EXCEPT ![w] = IdleWorker]
  /\ jobs' = [jobs EXCEPT ![r.job].outcome = "route_error",
                          ![r.job].wrote_next = Some(r.now + next_s)]
  /\ UNCHANGED <<clock, nticks, trip_updates, ledger, broker, sc, nrecalc, ncalls, approved>>

\* Variant: the denial is logged but budget_limited is not set.
owm_denied_noflag(w) ==
  LET r == wk[w] IN
  /\ r.pc = "owm_denied"
  /\ CallerCommit(r)
  /\ trip_updates' = Append1(r.tid, Event("budget_denied", "owm", 0, r.job))
  /\ wk' = [wk EXCEPT ![w].lk = {}, ![w].pc = "finish"]
  /\ UNCHANGED <<clock, nticks, trips, broker, sc, nrecalc, ncalls, jobs, approved>>

\* Lines 329-333: the owm budget was denied; the task goes on with severity 0.
owm_denied(w) ==
  LET r == wk[w] IN
  /\ r.pc = "owm_denied"
  /\ CallerCommit(r)
  /\ trip_updates' = Append1(r.tid, Event("budget_denied", "owm", 0, r.job))
  /\ wk' = [wk EXCEPT ![w].lk = {}, ![w].budget_limited = TRUE, ![w].pc = "finish"]
  /\ UNCHANGED <<clock, nticks, trips, broker, sc, nrecalc, ncalls, jobs, approved>>

\* Variant: the UPDATE without eta_at.
FinalRow_noeta(row, r, eta, rk, next_at) ==
  [row EXCEPT !.route_distance_m = r.dist_m,
              !.route_duration_s = r.dur_s,
              !.route_geojson = r.geom,
              !.buffer_minutes = Some(rk.buffer_minutes),
              !.delay_risk_pct = Some(rk.pct),
              !.status = Some(rk.status),
              !.suggestion = Some(rk.suggestion),
              !.recommended_depart_at =
                 Some(recommend_depart(r.now, rk.status, rk.buffer_minutes)),
              !.why = Some(rk.why),
              !.customer_message =
                 Some(customer_message(rk.status, eta, row.deadline_at, rk.why,
                                       rk.suggestion)),
              !.last_calc_at = Some(r.now),
              !.next_calc_at = Some(next_at),
              !.calc_state = IF r.budget_limited THEN "budget_limited" ELSE "done"]

\* The UPDATE of lines 358-373.
FinalRow(row, r, eta, rk, next_at) ==
  [row EXCEPT !.eta_at = Some(eta),
              !.route_distance_m = r.dist_m,
              !.route_duration_s = r.dur_s,
              !.route_geojson = r.geom,
              !.buffer_minutes = Some(rk.buffer_minutes),
              !.delay_risk_pct = Some(rk.pct),
              !.status = Some(rk.status),
              !.suggestion = Some(rk.suggestion),
              !.recommended_depart_at =
                 Some(recommend_depart(r.now, rk.status, rk.buffer_minutes)),
              !.why = Some(rk.why),
              !.customer_message =
                 Some(customer_message(rk.status, eta, row.deadline_at, rk.why,
                                       rk.suggestion)),
              !.last_calc_at = Some(r.now),
              !.next_calc_at = Some(next_at),
              !.calc_state = IF r.budget_limited THEN "budget_limited" ELSE "done"]

\* Lines 334-375 with severity sev (0 after a denial or a failed forecast).
finish_with(w, sev, called, failed) ==
  LET r == wk[w]
      row == trips[r.tid]
      eta == r.now + Val(r.dur_s)
      rk == risk(row.deadline_at, eta, sev)
      next_s == next_interval_seconds(row.policy_mode, rk.status, r.budget_limited)
  IN
  /\ trips' = [trips EXCEPT ![r.tid] = FinalRow(row, r, eta, rk, r.now + next_s)]
  /\ trip_updates' = Append1(r.tid, Event("recalc_done", "", 0, r.job))
  /\ wk' = [wk EXCEPT ![w] = IdleWorker]
  /\ jobs' = [jobs EXCEPT ![r.job].outcome = "ok",
                          ![r.job].wrote_route = RouteOf(FinalRow(row, r, eta, rk, r.now + next_s)),
                          ![r.job].budget_limited = r.budget_limited,
                          ![r.job].forecast_calls = @ + called,
                          ![r.job].forecast_failures = @ + failed,
                          ![r.job].wrote_next = Some(r.now + next_s)]

\* Variant: a failed forecast leaves the severity of an earlier answer.
finish_stale(w) ==
  /\ wk[w].pc = "finish"
  /\ IF wk[w].budget_limited
       THEN finish_with(w, 0, 0, 0)
       ELSE \/ \E sev \in Severities : finish_with(w, sev, 1, 0)
            \/ finish_with(w, 80, 1, 1)
  /\ UNCHANGED <<clock, nticks, ledger, broker, sc, nrecalc, ncalls, approved>>

\* After an approved owm consume the Forecast Client answers with a severity
\* or fails (severity 0); after a denial it is not called.
finish(w) ==
  /\ wk[w].pc = "finish"
  /\ IF wk[w].budget_limited
       THEN finish_with(w, 0, 0, 0)
       ELSE \/ \E sev \in Severities : finish_with(w, sev, 1, 0)
            \/ finish_with(w, 0, 1, 1)
  /\ UNCHANGED <<clock, nticks, ledger, broker, sc, nrecalc, ncalls, approved>>

(***************************************************************************)
(* Scanner: scan_due_trips.                                                *)
(***************************************************************************)
Eligible == {"idle", "done", "budget_limited", "error"}

Due(now) ==
  {t \in DOMAIN trips :
     /\ trips[t].next_calc_at # NULL
     /\ Val(trips[t].next_calc_at) <= now
     /\ trips[t].calc_state \in Eligible}

\* ORDER BY next_calc_at ASC LIMIT 50: the due trips in an order the sort
\* allows (ties in any order), cut to the batch size.
DueBatches(now) ==
  LET due == Due(now)
      n == Cardinality(due)
      m == Min(n, ScanBatchLimit)
  IN  {SubSeq(q, 1, m) :
         q \in {p \in [1..n -> due] :
                  /\ \A i, k \in 1..n : i # k => p[i] # p[k]
                  /\ \A i \in 1..(n - 1) :
                       Val(trips[p[i]].next_calc_at) <= Val(trips[p[i + 1]].next_calc_at)}}

FirstFreeScanner(s) == s = "s1" \/ sc["s1"].pc # "idle"

\* Lines 255-263: the SELECT of the due trips.  A scan that finds none
\* returns without a trace.
scan_select(s) ==
  /\ sc[s].pc = "idle"
  /\ FirstFreeScanner(s)
  /\ Due(clock) # {}
  /\ \E rows \in DueBatches(clock) :
       sc' = [sc EXCEPT ![s] = [pc |-> "queue", now |-> clock, rows |-> rows,
                                seen |-> [t \in Due(clock) |-> Len(trip_updates[t])]]]
  /\ UNCHANGED <<clock, nticks, trips, trip_updates, ledger, broker, wk, nrecalc, ncalls,
                 jobs, approved>>

\* Lines 265-269, one row of the batch: UPDATE ... WHERE id = t.id, the
\* event, the commit, the message.
scan_queue(s) ==
  LET t == Head(sc[s].rows)
      rest == Tail(sc[s].rows)
  IN
  /\ sc[s].pc = "queue"
  /\ trips' = [trips EXCEPT ![t].calc_state = "queued",
                            ![t].next_calc_at = Some(sc[s].now + SCAN_INTERVAL_SECONDS)]
  /\ trip_updates' = Append1(t, Event("recalc_queued", "scheduler", 0, 0))
  /\ broker' = [broker EXCEPT ![t] = @ + 1]
  /\ sc' = [sc EXCEPT ![s] = IF rest = <<>> THEN IdleScanner ELSE [@ EXCEPT !.rows = rest]]
  /\ UNCHANGED <<clock, nticks, ledger, wk, nrecalc, ncalls, jobs, approved>>

(***************************************************************************)
(* Facade (main.py).                                                       *)
(***************************************************************************)
\* POST /api/trips, lines 211-232.
create_trip(tid, body) ==
  /\ tid \notin DOMAIN trips
  /\ trips' = [t \in DOMAIN trips \cup {tid} |->
                 IF t = tid THEN NewTrip(body, clock) ELSE trips[t]]
  /\ trip_updates' =
       [trip_updates EXCEPT ![tid] =
          @ \o <<Event("created", body.policy_mode, 0, 0),
                 Event("recalc_queued", "create", 0, 0)>>]
  /\ broker' = [broker EXCEPT ![tid] = @ + 1]
  /\ UNCHANGED <<clock, nticks, ledger, wk, sc, nrecalc, ncalls, jobs, approved>>

\* POST /api/trips/{id}/recalc, lines 257-265.
recalc_now(tid) ==
  /\ tid \in DOMAIN trips
  /\ nrecalc < MaxRecalcNow
  /\ nrecalc' = nrecalc + 1
  /\ trips' = [trips EXCEPT ![tid].calc_state = "queued",
                            ![tid].next_calc_at = Some(clock)]
  /\ trip_updates' = Append1(tid, Event("recalc_queued", "user", 0, 0))
  /\ broker' = [broker EXCEPT ![tid] = @ + 1]
  /\ UNCHANGED <<clock, nticks, ledger, wk, sc, ncalls, jobs, approved>>

(***************************************************************************)
(* Ledger harness: workers call consume(trip, api, amount) directly.       *)
(***************************************************************************)
\* Every call site passes amount = 1 (tasks.py 305, 328).
Amounts == {1}

LedgerTrips ==
  [t \in Trips |->
     NewTrip([deadline_at |-> StartClock + 6 * 3600, points_n |-> 2,
              policy_mode |-> "balanced",
              trip_owm_daily_cap |-> IF t = "t1" THEN 1 ELSE 2,
              trip_route_daily_cap |-> IF t = "t1" THEN 1 ELSE 2], StartClock)]

InitLedger ==
  /\ clock = StartClock
  /\ nticks = 0
  /\ trips = LedgerTrips
  /\ trip_updates = [t \in Trips |-> <<>>]
  /\ api_usage_daily = <<>>
  /\ api_usage_minute = <<>>
  /\ trip_api_usage_daily = <<>>
  /\ broker = [t \in Trips |-> 0]
  /\ wk = [w \in Workers |-> IdleWorker]
  /\ sc = [s \in Scanners |-> IdleScanner]
  /\ nrecalc = 0
  /\ ncalls = 0
  /\ jobs = <<>>
  /\ approved = <<>>

h_call(w, tid, api_name, amount) ==
  /\ wk[w].pc = "idle"
  /\ FirstFree(w)
  /\ ncalls < MaxCalls
  /\ wk' = [wk EXCEPT ![w] =
              consume_enter([IdleWorker EXCEPT !.caller = "harness", !.tid = tid],
                            api_name, amount)]
  /\ ncalls' = ncalls + 1
  /\ UNCHANGED <<clock, nticks, trips, trip_updates, ledger, broker, sc, nrecalc, jobs,
                 approved>>

\* The caller ends its transaction and is free for the next call.
h_ret(w) ==
  /\ wk[w].pc = "h_ret"
  /\ CallerCommit(wk[w])
  /\ wk' = [wk EXCEPT ![w] = IdleWorker]
  /\ UNCHANGED <<clock, nticks, trips, trip_updates, broker, sc, nrecalc, ncalls, jobs,
                 approved>>

ConsumeStep(w) ==
  \/ c_ens_d(w)
  \/ c_ens_m(w)
  \/ c_ens_t(w)
  \/ c_commit(w)
  \/ c_lock_d(w)
  \/ c_lock_m(w)
  \/ c_lock_t(w)
  \/ c_audit(w)

NextLedger ==
  \/ \E w \in Workers, tid \in Trips, a \in Apis, n \in Amounts : h_call(w, tid, a, n)
  \/ \E w \in Workers : ConsumeStep(w)
  \/ \E w \in Workers : h_ret(w)
  \/ Tick(60)

SpecLedger == InitLedger /\ [][NextLedger]_vars


(***************************************************************************)
(* The system: facade, scanners, workers and the clock over one database.  *)
(***************************************************************************)
\* The database holds one row written outside the facade, with the schema's
\* defaults and a single waypoint (the case the task's own validation is
\* for); the other trip is created through the facade.
Init ==
  /\ clock = StartClock
  /\ nticks = 0
  /\ trips = [t \in {"t2"} |-> SeedTrip(StartClock + 3 * 3600, 1)]
  /\ trip_updates = [t \in Trips |-> <<>>]
  /\ api_usage_daily = <<>>
  /\ api_usage_minute = <<>>
  /\ trip_api_usage_daily = <<>>
  /\ broker = [t \in Trips |-> 0]
  /\ wk = [w \in Workers |-> IdleWorker]
  /\ sc = [s \in Scanners |-> IdleScanner]
  /\ nrecalc = 0
  /\ ncalls = 0
  /\ jobs = <<>>
  /\ approved = <<>>

RecalcStep(w) ==
  \/ \E tid \in Trips : recalc_start(w, tid)
  \/ recalc_load(w)
  \/ route_denied(w)
  \/ route_denied2(w)
  \/ route_call(w)
  \/ route_failed2(w)
  \/ owm_denied(w)
  \/ finish(w)

Next ==
  \/ \E tid \in Trips, body \in TripCreateIn : create_trip(tid, body)
  \/ \E tid \in Trips : recalc_now(tid)
  \/ \E s \in Scanners : scan_select(s)
  \/ \E s \in Scanners : scan_queue(s)
  \/ \E w \in Workers : RecalcStep(w)
  \/ \E w \in Workers : ConsumeStep(w)
  \/ Tick(BudgetBackoffSeconds)

Spec == Init /\ [][Next]_vars

(***************************************************************************)
(* Properties of the quota ledger, checked under SpecLedger.               *)
(***************************************************************************)
DailyLimitOf(api_name) == IF api_name = "owm" THEN OWM_DAILY_LIMIT ELSE ROUTE_DAILY_LIMIT
MinuteLimitOf(api_name) == IF api_name = "owm" THEN OWM_PER_MIN_LIMIT ELSE ROUTE_PER_MIN_LIMIT

\* C1 (cap respect): in every reachable state, whatever the interleaving of
\* the consume calls, every global-day counter is at most the daily limit of
\* its api, every minute-bucket counter at most the per-minute limit, and
\* every (trip, day) counter at most that trip's daily cap for the api.
CapRespect ==
  /\ \A ref \in DOMAIN api_usage_daily : api_usage_daily[ref] <= DailyLimitOf(ref[2])
  /\ \A ref \in DOMAIN api_usage_minute : api_usage_minute[ref] <= MinuteLimitOf(ref[2])
  /\ \A ref \in DOMAIN trip_api_usage_daily :
       /\ trip_api_usage_daily[ref].owm_calls <= trips[ref[2]].trip_owm_daily_cap
       /\ trip_api_usage_daily[ref].route_calls <= trips[ref[2]].trip_route_daily_cap

\* A call was denied on the per-minute check with the bucket at its limit.
CapReached ==
  \E w \in Workers :
    /\ wk[w].pc = "h_ret"
    /\ ~wk[w].ok
    /\ wk[w].reason = "per_min_limit"
    /\ api_usage_minute[MinuteRef(wk[w].api, wk[w].mb)] = MinuteLimitOf(wk[w].api)

\* C2 (exact increment, no lost update): every counter equals the sum of the
\* amounts of the approved consumes of its api on its key, and each column of
\* a trip row counts the approvals of its own api only.
ExactIncrement ==
  /\ \A ref \in DOMAIN api_usage_daily :
       api_usage_daily[ref] = Get(approved, <<ref, ref[2]>>)
  /\ \A ref \in DOMAIN api_usage_minute :
       api_usage_minute[ref] = Get(approved, <<ref, ref[2]>>)
  /\ \A ref \in DOMAIN trip_api_usage_daily :
       /\ trip_api_usage_daily[ref].owm_calls = Get(approved, <<ref, "owm">>)
       /\ trip_api_usage_daily[ref].route_calls = Get(approved, <<ref, "route">>)
  /\ \A k \in DOMAIN approved : RowExists(k[1])

\* Two workers were approved on the same global-day row while both calls
\* were in progress.
TwoApprovalsOneRow ==
  /\ \A w \in Workers : wk[w].pc = "c_audit"
  /\ wk["w1"].api = wk["w2"].api
  /\ wk["w1"].d = wk["w2"].d
  /\ api_usage_daily[DailyRef(wk["w1"].api, wk["w1"].d)] = 2

\* The three counters a call works on, as stored (a missing row counts 0).
CountersOf(daily, minute, trip, r) ==
  <<Get(daily, DailyRef(r.api, r.d)),
    Get(minute, MinuteRef(r.api, r.mb)),
    IF TripDayRef(r.tid, r.d) \in DOMAIN trip
      THEN trip[TripDayRef(r.tid, r.d)][TripColumn(r.api)] ELSE 0>>

ConsumePcs ==
  {"c_ens_d", "c_ens_m", "c_ens_t", "c_commit", "c_lock_d", "c_lock_m", "c_lock_t"}
ReturnPcs == {"h_ret", "route_denied", "owm_denied"}

\* C3 (denial atomicity): no step of a consume call other than its approval,
\* and no step by which the caller of a denied consume commits, changes any
\* of the three counters of the call's api: a denied call leaves them as
\* they were.
DenialAtomic ==
  [][\A w \in Workers :
       (/\ wk[w].pc \in ConsumePcs \cup ReturnPcs
        /\ wk'[w] # wk[w]
        /\ ~(wk[w].pc = "c_lock_t" /\ wk'[w].pc = "c_audit"))
       => CountersOf(api_usage_daily', api_usage_minute', trip_api_usage_daily', wk[w])
            = CountersOf(api_usage_daily, api_usage_minute, trip_api_usage_daily, wk[w])]_vars

\* A call was denied by the third check, the trip cap, with counters above 0.
DeniedOnTripCap ==
  \E w \in Workers :
    /\ wk[w].pc = "h_ret"
    /\ ~wk[w].ok
    /\ wk[w].reason = "trip_daily_cap"
    /\ wk[w].lk # {}
    /\ api_usage_daily[DailyRef(wk[w].api, wk[w].d)] > 0

(***************************************************************************)
(* Properties of the system, checked under Spec.                           *)
(***************************************************************************)
\* Positions in trip tid's log of the events of one kind and tag (any tag
\* if tag is "*") appended by task j (any appender if j is 0).
EventsAt(tid, kind, tag, j) ==
  {i \in DOMAIN trip_updates[tid] :
     /\ trip_updates[tid][i].kind = kind
     /\ (tag = "*" \/ trip_updates[tid][i].tag = tag)
     /\ (j = 0 \/ trip_updates[tid][i].job = j)}

AllowedEdges ==
  {<<"idle", "queued">>, <<"queued", "idle">>, <<"queued", "running">>,
   <<"running", "queued">>, <<"running", "done">>, <<"running", "budget_limited">>,
   <<"running", "error">>, <<"done", "queued">>, <<"budget_limited", "queued">>,
   <<"error", "queued">>}

\* C4 (state-transition discipline): every change of a trip's calc_state
\* follows one of the edges idle<->queued, queued<->running, running->done,
\* running->budget_limited, running->error, {done, budget_limited,
\* error}->queued.
StateDiscipline ==
  [][\A t \in DOMAIN trips :
       trips'[t].calc_state # trips[t].calc_state
         => <<trips[t].calc_state, trips'[t].calc_state>> \in AllowedEdges]_vars

Returned(j) == jobs[j].outcome \notin {"active", "raised"}

\* C5 as stated (audit completeness of recalculations): every task that has
\* returned has appended exactly one event of kind recalc_done or
\* recalc_error.
RecalcAuditEveryPath ==
  \A j \in DOMAIN jobs :
    Returned(j) =>
      Cardinality(EventsAt(jobs[j].tid, "recalc_done", "*", j)
                    \cup EventsAt(jobs[j].tid, "recalc_error", "*", j)) = 1

\* C5 as the code has it: every task appends one recalc_running event and
\* at most one event of kind recalc_done or recalc_error, after its
\* recalc_running; a task that returns has appended exactly one
\* recalc_error and no recalc_done on a validation or route failure, exactly
\* one recalc_done and no recalc_error when it completes (owm denial and
\* forecast failure included), and neither of them, but one
\* budget_denied{route}, when the route budget is denied.
RecalcAudit ==
  \A j \in DOMAIN jobs :
    LET tid == jobs[j].tid
        run == EventsAt(tid, "recalc_running", "*", j)
        done == EventsAt(tid, "recalc_done", "*", j)
        err == EventsAt(tid, "recalc_error", "*", j)
        den == EventsAt(tid, "budget_denied", "route", j)
    IN  /\ Cardinality(run) = 1
        /\ Cardinality(done \cup err) <= 1
        /\ \A i \in done \cup err : \A k \in run : k < i
        /\ jobs[j].outcome = "ok" => Cardinality(done) = 1 /\ err = {}
        /\ jobs[j].outcome \in {"bad-waypoints", "route_error"}
             => Cardinality(err) = 1 /\ done = {}
        /\ jobs[j].outcome = "budget_denied_route"
             => done \cup err = {} /\ Cardinality(den) = 1

\* One task failed on the route, another was denied the route budget.
RouteErrorThenDenied ==
  \E j1, j2 \in DOMAIN jobs :
    /\ jobs[j1].outcome = "route_error"
    /\ jobs[j2].outcome = "budget_denied_route"

RECURSIVE SumOver(_, _)
SumOver(f, S) ==
  IF S = {} THEN 0
  ELSE LET x == CHOOSE y \in S : TRUE IN f[x] + SumOver(f, S \ {x})

\* What has been added to trip tid's counters of an api, over all days.
TripCounter(tid, api_name) ==
  LET refs == {ref \in DOMAIN trip_api_usage_daily : ref[2] = tid}
  IN  SumOver([ref \in refs |-> trip_api_usage_daily[ref][TripColumn(api_name)]], refs)

\* Workers of task j whose consume of an api has decided and not yet logged.
Logging(j, api_name, pcs) ==
  {w \in Workers : wk[w].job = j /\ wk[w].api = api_name /\ wk[w].pc \in pcs}

JobCount(j, api_name, verdict) ==
  IF api_name = "route"
    THEN (IF verdict = "approved" THEN jobs[j].route_approved ELSE jobs[j].route_denied)
    ELSE (IF verdict = "approved" THEN jobs[j].owm_approved ELSE jobs[j].owm_denied)

BackoffFixed ==
  [][\A w \in Workers :
       (/\ \/ wk[w].pc = "route_denied2"
            \/ (wk[w].pc = "finish" /\ wk[w].budget_limited)
        /\ wk'[w].pc = "idle")
       => /\ trips'[wk[w].tid].next_calc_at = Some(wk[w].now + 2700)
          /\ jobs'[wk[w].job].wrote_next = Some(wk[w].now + 2700)]_vars

\* An aggressive trip computed red (interval 120 s by the table) is
\* budget_limited with its next calculation 2700 s after the last one.
BackedOffRed ==
  \E tid \in DOMAIN trips :
    /\ trips[tid].calc_state = "budget_limited"
    /\ trips[tid].policy_mode = "aggressive"
    /\ trips[tid].status = Some(RED)
    /\ trips[tid].next_calc_at = Some(Val(trips[tid].last_calc_at) + 2700)

\* C8 (route caching): a task that loads its trip with the three route
\* fields populated asks for no route budget, is neither approved nor denied
\* any, logs no route budget event, never calls the Route Client, consumes
\* the owm budget once, and writes back the route values it loaded.
RouteCached ==
  \A j \in DOMAIN jobs :
    jobs[j].populated =>
      /\ jobs[j].route_consumes = 0
      /\ jobs[j].route_approved = 0
      /\ jobs[j].route_denied = 0
      /\ jobs[j].route_calls = 0
      /\ jobs[j].owm_consumes = 1
      /\ EventsAt(jobs[j].tid, "budget_consume", "route", j) = {}
      /\ EventsAt(jobs[j].tid, "budget_denied", "route", j) = {}
      /\ \A w \in Workers : wk[w].job = j => wk[w].api = "owm"
      /\ jobs[j].outcome \in {"active", "ok", "raised"}
      /\ jobs[j].outcome = "ok" => jobs[j].wrote_route = jobs[j].snap

\* A task that loaded a populated route has completed.
CachedRecalcDone ==
  \E j \in DOMAIN jobs :
    /\ jobs[j].populated
    /\ jobs[j].outcome = "ok"
    /\ jobs[j].owm_approved = 1

DonePopulated ==
  \A tid \in DOMAIN trips :
    trips[tid].calc_state = "done" =>
      /\ trips[tid].eta_at # NULL
      /\ trips[tid].route_distance_m # NULL
      /\ trips[tid].route_duration_s # NULL
      /\ trips[tid].route_geojson # NULL
      /\ trips[tid].buffer_minutes # NULL
      /\ trips[tid].delay_risk_pct # NULL
      /\ trips[tid].status # NULL
      /\ trips[tid].suggestion # NULL
      /\ trips[tid].recommended_depart_at # NULL
      /\ trips[tid].why # NULL
      /\ trips[tid].customer_message # NULL
      /\ trips[tid].last_calc_at # NULL
      /\ trips[tid].next_calc_at # NULL

\* A trip is done.
SomeTripDone == \E tid \in DOMAIN trips : trips[tid].calc_state = "done"

\* C11 (monotonic next_calc_at): a step that changes the stored next_calc_at
\* of a trip is a step of the scanner or of a recalculation, not of the
\* facade's enqueue-recalc, and it does not store an earlier instant than
\* the one it replaces.
NextCalcMonotonic ==
  [][\A tid \in DOMAIN trips :
       trips'[tid].next_calc_at # trips[tid].next_calc_at
       => /\ nrecalc' = nrecalc
          /\ trips'[tid].next_calc_at # NULL
          /\ trips[tid].next_calc_at # NULL
               => Val(trips'[tid].next_calc_at) >= Val(trips[tid].next_calc_at)]_vars

(***************************************************************************)
(* At-least-once delivery: the broker may hand out a recalc_trip message   *)
(* more than once.                                                         *)
(***************************************************************************)
\* The body of POST /api/trips with the defaults of TripCreateIn
\* (main.py 96-100): balanced, caps 30 and 15.
DefaultBody ==
  [deadline_at |-> StartClock + 6 * 3600, points_n |-> 2, policy_mode |-> "balanced",
   trip_owm_daily_cap |-> DefaultOwmCap, trip_route_daily_cap |-> DefaultRouteCap]

\* An empty database.
InitRedelivery ==
  /\ clock = StartClock
  /\ nticks = 0
  /\ trips = <<>>
  /\ trip_updates = [t \in Trips |-> <<>>]
  /\ api_usage_daily = <<>>
  /\ api_usage_minute = <<>>
  /\ trip_api_usage_daily = <<>>
  /\ broker = [t \in Trips |-> 0]
  /\ wk = [w \in Workers |-> IdleWorker]
  /\ sc = [s \in Scanners |-> IdleScanner]
  /\ nrecalc = 0
  /\ ncalls = 0
  /\ jobs = <<>>
  /\ approved = <<>>

\* The broker hands out again a message of trip tid that a worker has
\* taken: recalc_trip carries no delivery id and runs for every delivery.
redeliver(tid) ==
  /\ \E j \in DOMAIN jobs : jobs[j].tid = tid
  /\ broker[tid] = 0
  /\ Len(jobs) < MaxJobs
  /\ broker' = [broker EXCEPT ![tid] = @ + 1]
  /\ UNCHANGED <<clock, nticks, trips, trip_updates, ledger, wk, sc, nrecalc, ncalls, jobs,
                 approved>>

NextRedelivery ==
  \/ create_trip("t1", DefaultBody)
  \/ redeliver("t1")
  \/ \E w \in Workers : RecalcStep(w)
  \/ \E w \in Workers : ConsumeStep(w)
  \/ Tick(60)

SpecRedelivery == InitRedelivery /\ [][NextRedelivery]_vars

\* C12 (duplicate delivery is harmless for quotas): the counters of a trip
\* for an api have been advanced at most once per queued recalculation of
\* that trip, however often the recalculation's message was delivered.
DuplicateHarmless ==
  \A tid \in DOMAIN trips, a \in Apis :
    TripCounter(tid, a) <= Cardinality(EventsAt(tid, "recalc_queued", "*", 0))

(***************************************************************************)
(* The ledger when the audit INSERT may fail.                              *)
(***************************************************************************)
\* Lines 152-153 raise (the database refuses the INSERT or the connection
\* is lost): the exception leaves _consume_budget and its caller.  The
\* session holds no uncommitted change of the counters: the commit of line
\* 150 has ended the transaction that incremented them.
c_audit_fails(w) ==
  /\ wk[w].pc = "c_audit"
  /\ Raise(w)
  /\ UNCHANGED <<clock, nticks, trips, trip_updates, ledger, broker, sc, nrecalc, ncalls,
                 approved>>

NextAuditFailure ==
  \/ \E w \in Workers, tid \in Trips, a \in Apis, n \in Amounts : h_call(w, tid, a, n)
  \/ \E w \in Workers : ConsumeStep(w)
  \/ \E w \in Workers : c_audit_fails(w)
  \/ \E w \in Workers : h_ret(w)
  \/ Tick(60)

SpecAuditFailure == InitLedger /\ [][NextAuditFailure]_vars

\* C13 (audit failure rolls back the increment): the step in which the
\* budget_consume event of an approved consume fails to be appended takes
\* the consume's amount back from each of its three counters.
AuditFailureRollsBack ==
  [][\A w \in Workers :
       (wk[w].pc = "c_audit" /\ wk'[w].pc = "idle")
       => LET before == CountersOf(api_usage_daily, api_usage_minute,
                                   trip_api_usage_daily, wk[w])
              after == CountersOf(api_usage_daily', api_usage_minute',
                                  trip_api_usage_daily', wk[w])
          IN  \A k \in 1..3 : after[k] = before[k] - wk[w].amount]_vars

\* C14 (monotonic counters): no step removes a row of the three counter
\* tables or lowers a stored count, and a row that a step creates holds 0.
CountersMonotonic ==
  [][/\ \A ref \in DOMAIN api_usage_daily :
          /\ ref \in DOMAIN api_usage_daily'
          /\ api_usage_daily'[ref] >= api_usage_daily[ref]
     /\ \A ref \in DOMAIN api_usage_daily' \ DOMAIN api_usage_daily :
          api_usage_daily'[ref] = 0
     /\ \A ref \in DOMAIN api_usage_minute :
          /\ ref \in DOMAIN api_usage_minute'
          /\ api_usage_minute'[ref] >= api_usage_minute[ref]
     /\ \A ref \in DOMAIN api_usage_minute' \ DOMAIN api_usage_minute :
          api_usage_minute'[ref] = 0
     /\ \A ref \in DOMAIN trip_api_usage_daily :
          /\ ref \in DOMAIN trip_api_usage_daily'
          /\ \A a \in Apis : trip_api_usage_daily'[ref][TripColumn(a)]
                               >= trip_api_usage_daily[ref][TripColumn(a)]
     /\ \A ref \in DOMAIN trip_api_usage_daily' \ DOMAIN trip_api_usage_daily :
          \A a \in Apis : trip_api_usage_daily'[ref][TripColumn(a)] = 0]_vars

\* Rows of two days exist; the owm row of each day, an owm minute row and a
\* trip's row of each day have been advanced.
CountersAdvancedTwoDays ==
  \E d1, d2 \in {today(StartClock), today(StartClock) + 1} :
    /\ d1 # d2
    /\ Get(api_usage_daily, DailyRef("owm", d1)) = 1
    /\ Get(api_usage_daily, DailyRef("owm", d2)) = 1
    /\ \E ref \in DOMAIN api_usage_minute : api_usage_minute[ref] = 1
    /\ \E tid \in Trips :
         /\ TripDayRef(tid, d1) \in DOMAIN trip_api_usage_daily
         /\ TripDayRef(tid, d2) \in DOMAIN trip_api_usage_daily
         /\ trip_api_usage_daily[TripDayRef(tid, d1)].owm_calls = 1
         /\ trip_api_usage_daily[TripDayRef(tid, d2)].owm_calls = 1

(***************************************************************************)
(* The pure functions _risk and _next_interval_seconds, applied by the     *)
(* recalculation of one trip created with deadlines, policies and caps     *)
(* from a grid.                                                            *)
(***************************************************************************)
\* deadline - eta of the first recalculation: the band edges 14400, 7200,
\* 0 and -7200 with their neighbours, values inside the bands, and two
\* whose minutes are ties (90 s, 150 s).
Slacks ==
  {18000, 14400, 14399, 7200, 7199, 1800, 150, 90, 0, -1, -2400, -7200, -7201}

\* <<trip_owm_daily_cap, trip_route_daily_cap>> of the bodies.
CapPairs == {<<1, 1>>, <<0, 1>>, <<1, 0>>}

\* Bodies of POST /api/trips: the recalculation starts at StartClock and
\* the route takes RouteResults' duration, so deadline - eta is the slack.
GridBodies ==
  {[deadline_at |-> StartClock + res.duration_s + slack, points_n |-> 2,
    policy_mode |-> mode, trip_owm_daily_cap |-> caps[1],
    trip_route_daily_cap |-> caps[2]] :
     res \in RouteResults, slack \in Slacks, mode \in PolicyModes, caps \in CapPairs}

NextGrid ==
  \/ \E body \in GridBodies : create_trip("t1", body)
  \/ \E w \in Workers : RecalcStep(w)
  \/ \E w \in Workers : ConsumeStep(w)

SpecGrid == InitRedelivery /\ [][NextGrid]_vars

\* C15 (risk classification): every computed trip holds, for its
\* slack = deadline - eta and the severity of its weather record, a
\* delay_risk_pct that is 100 * clamp(base + 0.25 * severity, 0, 0.99)
\* rounded to a nearest integer, with base by the five slack bands; the
\* status by the bands pct < 34, pct < 67; buffer_minutes = slack / 60
\* rounded to a nearest integer; and the three quoted results:
\* (18000 s, 0.1) is 13 green 300, (1800 s, 0.5) is 53 yellow 30,
\* (-2400 s, 0.8) is 90 red -40.
RiskClassification ==
  \A tid \in DOMAIN trips :
    trips[tid].delay_risk_pct # NULL =>
      LET row == trips[tid]
          slack == row.deadline_at - Val(row.eta_at)
          sev == Val(row.why).weather_sev
          pct == Val(row.delay_risk_pct)
          status == Val(row.status)
          buffer == Val(row.buffer_minutes)
          base == IF slack >= 14400 THEN 10
                  ELSE IF slack >= 7200 THEN 20
                  ELSE IF slack >= 0 THEN 40
                  ELSE IF slack >= -7200 THEN 70
                  ELSE 85
          r10000 == Min(9900, Max(0, 100 * base + 25 * sev))
      IN  /\ 100 * pct - r10000 \in -50..50
          /\ status = GREEN <=> pct < 34
          /\ status = YELLOW <=> (34 <= pct /\ pct < 67)
          /\ status = RED <=> pct >= 67
          /\ 2 * (60 * buffer - slack) \in -60..60
          /\ (slack = 18000 /\ sev = 10) => (pct = 13 /\ status = GREEN /\ buffer = 300)
          /\ (slack = 1800 /\ sev = 50) => (pct = 53 /\ status = YELLOW /\ buffer = 30)
          /\ (slack = -2400 /\ sev = 80) => (pct = 90 /\ status = RED /\ buffer = -40)

\* The table of the claim, in seconds.
ClaimedInterval ==
  [m \in PolicyModes |->
     IF m = "conservative" THEN [s \in {GREEN, YELLOW, RED} |->
                                   IF s = GREEN THEN 3600 ELSE IF s = YELLOW THEN 1500 ELSE 480]
     ELSE IF m = "balanced" THEN [s \in {GREEN, YELLOW, RED} |->
                                   IF s = GREEN THEN 2400 ELSE IF s = YELLOW THEN 900 ELSE 300]
     ELSE [s \in {GREEN, YELLOW, RED} |->
             IF s = GREEN THEN 1200 ELSE IF s = YELLOW THEN 480 ELSE 120]]

\* C16 (adaptive interval table): a task that has stored next_calc_at
\* stored its now plus 2700 s if it was budget-limited, and otherwise plus
\* the table's value for the trip's policy mode and status (yellow if the
\* trip has none); the function's interval strictly decreases from green
\* to yellow to red in every mode and from conservative to balanced to
\* aggressive for every status.
IntervalTableHolds ==
  /\ \A j \in DOMAIN jobs :
       jobs[j].wrote_next # NULL =>
         LET row == trips[jobs[j].tid]
             d == Val(jobs[j].wrote_next) - jobs[j].now
         IN  /\ row.next_calc_at = jobs[j].wrote_next
             /\ d = IF jobs[j].budget_limited THEN 2700
                    ELSE ClaimedInterval[row.policy_mode][StatusOr(row, YELLOW)]
  /\ \A m \in PolicyModes :
       /\ next_interval_seconds(m, GREEN, FALSE) > next_interval_seconds(m, YELLOW, FALSE)
       /\ next_interval_seconds(m, YELLOW, FALSE) > next_interval_seconds(m, RED, FALSE)
  /\ \A st \in {GREEN, YELLOW, RED} :
       /\ next_interval_seconds("conservative", st, FALSE)
            > next_interval_seconds("balanced", st, FALSE)
       /\ next_interval_seconds("balanced", st, FALSE)
            > next_interval_seconds("aggressive", st, FALSE)
  /\ \A m \in PolicyModes, st \in {GREEN, YELLOW, RED} :
       next_interval_seconds(m, st, TRUE) = 2700

\* An aggressive trip computed red without a budget denial has its next
\* calculation 120 s after the task's start.
AggressiveRedInterval ==
  \E j \in DOMAIN jobs :
    /\ jobs[j].outcome = "ok"
    /\ ~jobs[j].budget_limited
    /\ trips[jobs[j].tid].policy_mode = "aggressive"
    /\ trips[jobs[j].tid].status = Some(RED)
    /\ trips[jobs[j].tid].next_calc_at = Some(jobs[j].now + 120)

(***************************************************************************)
(* The paths of a recalculation, checked under Spec.                       *)
(***************************************************************************)
\* The columns of a trip that only the final UPDATE of a recalculation
\* writes: the route, the ETA and what the risk model derives from them.
RouteFields(row) == <<row.route_distance_m, row.route_duration_s, row.route_geojson>>
ComputedFields(row) ==
  <<row.eta_at, row.buffer_minutes, row.delay_risk_pct, row.status, row.suggestion,
    row.recommended_depart_at, row.why, row.customer_message>>

\* C17 (validation failure path): the step by which a task finds fewer than
\* two waypoints ends the task with calc_state error, one recalc_error event
\* of stage validate appended, next_calc_at at the task's now plus the
\* interval of (policy mode, yellow, not budget-limited), no budget asked
\* for, no provider called and no route or computed field changed.
ValidationFailurePath ==
  [][\A w \in Workers :
       (/\ wk[w].pc = "load"
        /\ wk'[w] # wk[w]
        /\ trips[wk[w].tid].points_n < 2)
       => LET tid == wk[w].tid
              j == wk[w].job
          IN  /\ wk'[w].pc = "idle"
              /\ trips'[tid].calc_state = "error"
              /\ trip_updates'[tid] =
                   Append(trip_updates[tid], Event("recalc_error", "validate", 0, j))
              /\ trips'[tid].next_calc_at =
                   Some(wk[w].now + ClaimedInterval[trips[tid].policy_mode][YELLOW])
              /\ jobs'[j].route_consumes = 0 /\ jobs'[j].owm_consumes = 0
              /\ jobs'[j].route_calls = 0 /\ jobs'[j].forecast_calls = 0
              /\ UNCHANGED ledger
              /\ RouteFields(trips'[tid]) = RouteFields(trips[tid])
              /\ ComputedFields(trips'[tid]) = ComputedFields(trips[tid])]_vars

\* C18 (route budget denial path): the first step of a task after its route
\* consume was denied stores calc_state budget_limited and appends one
\* budget_denied event of api route; its second step stores last_calc_at =
\* the task's now and next_calc_at = now + 2700 and ends the task, which
\* has then appended exactly one budget_denied event of api route and no
\* recalc_done and has not called the Route Client; neither step changes a
\* counter, a route field or a computed field.
RouteDenialPath ==
  [][\A w \in Workers :
       LET tid == wk[w].tid
           j == wk[w].job
       IN
       /\ (wk[w].pc = "route_denied" /\ wk'[w] # wk[w])
          => /\ wk'[w].pc = "route_denied2"
             /\ trips'[tid] = [trips[tid] EXCEPT !.calc_state = "budget_limited"]
             /\ trip_updates'[tid] =
                  Append(trip_updates[tid], Event("budget_denied", "route", 0, j))
             /\ UNCHANGED ledger
       /\ (wk[w].pc = "route_denied2" /\ wk'[w] # wk[w])
          => /\ wk'[w].pc = "idle"
             /\ trips'[tid] = [trips[tid] EXCEPT !.next_calc_at = Some(wk[w].now + 2700),
                                                 !.last_calc_at = Some(wk[w].now)]
             /\ trip_updates'[tid] = trip_updates[tid]
             /\ UNCHANGED ledger
             /\ Cardinality(EventsAt(tid, "budget_denied", "route", j)) = 1
             /\ EventsAt(tid, "budget_denied", "owm", j) = {}
             /\ EventsAt(tid, "recalc_done", "*", j) = {}
             /\ EventsAt(tid, "recalc_error", "*", j) = {}
             /\ jobs'[j].route_calls = 0
             /\ jobs'[j].forecast_calls = 0
             /\ jobs'[j].owm_consumes = 0]_vars

\* A task has ended on a denied route budget; its trip is budget_limited,
\* due 2700 s after the task's start, with no route and no status.
RouteDeniedTrip ==
  \E j \in DOMAIN jobs :
    /\ jobs[j].outcome = "budget_denied_route"
    /\ trips[jobs[j].tid].calc_state = "budget_limited"
    /\ trips[jobs[j].tid].next_calc_at = Some(jobs[j].now + 2700)
    /\ trips[jobs[j].tid].last_calc_at = Some(jobs[j].now)
    /\ trips[jobs[j].tid].route_duration_s = NULL
    /\ trips[jobs[j].tid].status = NULL

\* C19 (forecast budget denial path): the step of a task after its owm
\* consume was denied appends one budget_denied event of api owm and
\* changes neither the trip nor a counter; the task's next step completes
\* the recalculation without a Forecast Client call: it appends recalc_done
\* after the budget_denied event and stores the route, the ETA, every
\* computed field derived from severity 0, calc_state budget_limited (not
\* done), last_calc_at = the task's now and next_calc_at = now + 2700.
OwmDenialPath ==
  [][\A w \in Workers :
       LET tid == wk[w].tid
           j == wk[w].job
       IN
       /\ (wk[w].pc = "owm_denied" /\ wk'[w] # wk[w])
          => /\ wk'[w].pc = "finish"
             /\ wk'[w].budget_limited
             /\ trips'[tid] = trips[tid]
             /\ trip_updates'[tid] =
                  Append(trip_updates[tid], Event("budget_denied", "owm", 0, j))
             /\ UNCHANGED ledger
       /\ (wk[w].pc = "finish" /\ wk[w].budget_limited /\ wk'[w] # wk[w])
          => LET new == trips'[tid]
                 eta == wk[w].now + Val(wk[w].dur_s)
                 slack == trips[tid].deadline_at - eta
             IN  /\ wk'[w].pc = "idle"
                 /\ trip_updates'[tid] =
                      Append(trip_updates[tid], Event("recalc_done", "", 0, j))
                 /\ Cardinality(EventsAt(tid, "budget_denied", "owm", j)) = 1
                 /\ jobs'[j].forecast_calls = 0
                 /\ jobs'[j].outcome = "ok"
                 /\ new.calc_state = "budget_limited"
                 /\ new.next_calc_at = Some(wk[w].now + 2700)
                 /\ new.last_calc_at = Some(wk[w].now)
                 /\ new.eta_at = Some(eta)
                 /\ RouteFields(new) = <<wk[w].dist_m, wk[w].dur_s, wk[w].geom>>
                 /\ \A k \in 1..3 : RouteFields(new)[k] # NULL
                 /\ \A k \in 1..8 : ComputedFields(new)[k] # NULL
                 /\ Val(new.why).weather_sev = 0
                 /\ new.delay_risk_pct = Some(BaseRisk(slack))
                 /\ new.status = Some(StatusOf(BaseRisk(slack)))
                 /\ 2 * (60 * Val(new.buffer_minutes) - slack) \in -60..60
                 /\ UNCHANGED ledger]_vars

\* A task whose owm consume was denied has completed: its trip is
\* budget_limited with a risk computed from severity 0.
OwmDeniedCompleted ==
  \E j \in DOMAIN jobs :
    /\ jobs[j].outcome = "ok"
    /\ jobs[j].owm_denied = 1
    /\ jobs[j].forecast_calls = 0
    /\ trips[jobs[j].tid].calc_state = "budget_limited"
    /\ trips[jobs[j].tid].delay_risk_pct # NULL
    /\ Val(trips[jobs[j].tid].why).weather_sev = 0
    /\ EventsAt(jobs[j].tid, "recalc_done", "*", j) # {}

\* C20 (route provider failure path): the step in which the Route Client
\* call of a task fails stores calc_state error and appends one
\* recalc_error event of stage route; the task's next step stores
\* next_calc_at = the task's now plus the table's interval for the trip's
\* policy mode and its stored status (yellow if it has none), never the
\* 2700 s back-off, and ends the task, which has appended no recalc_done
\* and asked for no owm budget; neither step changes a counter, a route
\* field or a computed field.
RouteFailurePath ==
  [][\A w \in Workers :
       LET tid == wk[w].tid
           j == wk[w].job
       IN
       /\ (wk[w].pc = "route_call" /\ wk'[w].pc = "route_failed2")
          => /\ trips'[tid] = [trips[tid] EXCEPT !.calc_state = "error"]
             /\ trip_updates'[tid] =
                  Append(trip_updates[tid], Event("recalc_error", "route", 0, j))
             /\ UNCHANGED ledger
       /\ (wk[w].pc = "route_failed2" /\ wk'[w] # wk[w])
          => LET next_s == ClaimedInterval[trips[tid].policy_mode][StatusOr(trips[tid], YELLOW)]
             IN  /\ wk'[w].pc = "idle"
                 /\ trips'[tid] = [trips[tid] EXCEPT !.next_calc_at = Some(wk[w].now + next_s),
                                                     !.last_calc_at = Some(wk[w].now)]
                 /\ next_s # 2700
                 /\ trip_updates'[tid] = trip_updates[tid]
                 /\ Cardinality(EventsAt(tid, "recalc_error", "route", j)) = 1
                 /\ EventsAt(tid, "recalc_done", "*", j) = {}
                 /\ jobs'[j].owm_consumes = 0
                 /\ jobs'[j].owm_approved = 0 /\ jobs'[j].owm_denied = 0
                 /\ jobs'[j].forecast_calls = 0
                 /\ UNCHANGED ledger]_vars

\* A task has ended on a failed route call for a trip that another task
\* had computed meanwhile: the interval is that of the stored status, which
\* is not yellow.
RouteFailedWithStatus ==
  \E j \in DOMAIN jobs :
    /\ jobs[j].outcome = "route_error"
    /\ trips[jobs[j].tid].status # NULL
    /\ trips[jobs[j].tid].next_calc_at = jobs[j].wrote_next
    /\ Val(jobs[j].wrote_next) - jobs[j].now
         = ClaimedInterval[trips[jobs[j].tid].policy_mode][Val(trips[jobs[j].tid].status)]
    /\ Val(trips[jobs[j].tid].status) # YELLOW

\* C21 (forecast provider failure path): the step of a task whose owm
\* consume was approved and whose Forecast Client call fails completes the
\* recalculation: it stores a risk derived from severity 0 and calc_state
\* done, is not budget-limited, appends recalc_done and no recalc_error,
\* and stores next_calc_at = the task's now plus the table's interval for
\* the policy mode and the computed status, which is not 2700.
ForecastFailurePath ==
  [][\A w \in Workers :
       LET tid == wk[w].tid
           j == wk[w].job
       IN
       (/\ wk[w].pc = "finish"
        /\ wk'[w] # wk[w]
        /\ jobs'[j].forecast_failures = 1)
       => LET new == trips'[tid]
              eta == wk[w].now + Val(wk[w].dur_s)
              slack == trips[tid].deadline_at - eta
              next_s == ClaimedInterval[new.policy_mode][Val(new.status)]
          IN  /\ wk'[w].pc = "idle"
              /\ jobs[j].owm_approved = 1
              /\ jobs'[j].forecast_calls = 1
              /\ jobs'[j].outcome = "ok"
              /\ ~jobs'[j].budget_limited
              /\ Val(new.why).weather_sev = 0
              /\ new.delay_risk_pct = Some(BaseRisk(slack))
              /\ new.status = Some(StatusOf(BaseRisk(slack)))
              /\ new.calc_state = "done"
              /\ trip_updates'[tid] =
                   Append(trip_updates[tid], Event("recalc_done", "", 0, j))
              /\ EventsAt(tid, "recalc_error", "*", j) = {}
              /\ new.next_calc_at = Some(wk[w].now + next_s)
              /\ next_s # 2700]_vars

\* A task whose forecast call failed has completed and its trip is done.
ForecastFailedDone ==
  \E j \in DOMAIN jobs :
    /\ jobs[j].forecast_failures = 1
    /\ jobs[j].outcome = "ok"
    /\ trips[jobs[j].tid].calc_state = "done"
    /\ Val(trips[jobs[j].tid].why).weather_sev = 0

\* C22 (the scanner never queues an in-flight trip): the step by which a
\* scanner moves a trip to queued is taken only when the trip's calc_state
\* is, at that moment, idle, done, budget_limited or error and its
\* next_calc_at is set and not after the scan's time.
ScannerSkipsInFlight ==
  [][\A sn \in Scanners :
       (sc[sn].pc = "queue" /\ sc'[sn] # sc[sn])
       => LET t == Head(sc[sn].rows) IN
          trips'[t] # trips[t]
          => /\ trips[t].calc_state \in Eligible
             /\ trips[t].next_calc_at # NULL
             /\ Val(trips[t].next_calc_at) <= sc[sn].now]_vars

(***************************************************************************)
(* Waiting in the ledger.                                                  *)
(***************************************************************************)
\* The row that worker record r is about to lock or to insert.
WantedRow(r) ==
  IF r.pc \in {"c_lock_d", "c_ens_d"} THEN DailyRef(r.api, r.d)
  ELSE IF r.pc \in {"c_lock_m", "c_ens_m"} THEN MinuteRef(r.api, r.mb)
  ELSE TripDayRef(r.tid, r.d)

\* Worker w cannot take its next step before worker o ends its transaction:
\* o holds the lock w asks for, or o has inserted, and not committed, the
\* row w is about to insert.
WaitsOn(w, o) ==
  \/ /\ wk[w].pc \in {"c_lock_d", "c_lock_m", "c_lock_t"}
     /\ WantedRow(wk[w]) \in wk[o].lk
  \/ /\ wk[w].pc \in {"c_ens_d", "c_ens_m", "c_ens_t"}
     /\ ~RowExists(WantedRow(wk[w]))
     /\ WantedRow(wk[w]) \in wk[o].ins

\* C23 (deadlock freedom of the ledger): no two workers wait on each other,
\* and a worker that another one waits on is at a step it can take.
NoWaitCycle ==
  \A w \in Workers : \A o \in Workers \ {w} :
    WaitsOn(w, o) =>
      /\ ~WaitsOn(o, w)
      /\ wk[o].pc \in (ConsumePcs \cup ReturnPcs)
      /\ wk[o].pc \in {"c_lock_d", "c_lock_m", "c_lock_t"} => CanLock(o, WantedRow(wk[o]))

\* A worker waits for a row lock that the caller of a denied consume still
\* holds.
WaitsOnDeniedCaller ==
  \E w \in Workers : \E o \in Workers \ {w} :
    /\ WaitsOn(w, o)
    /\ wk[w].pc \in {"c_lock_d", "c_lock_m", "c_lock_t"}
    /\ wk[o].pc \in ReturnPcs
    /\ ~wk[o].ok

\* C24 (every job reaches a terminal state): no exception leaves a task, and
\* a task that has ended ended on one of its return statements, the last
\* calc_state it stored being done, budget_limited or error.
JobsEndTerminal ==
  \A j \in DOMAIN jobs :
    /\ jobs[j].outcome # "raised"
    /\ jobs[j].outcome # "active"
       => jobs[j].outcome \in {"ok", "budget_denied_route", "route_error", "bad-waypoints"}

\* C25 (per-recalculation budget use): a task asks at most once for the
\* route budget and at most once for the owm budget; it asks for the owm
\* budget only with the route cached (no route budget asked for) or after
\* an approved route consume and a Route Client call that did not fail; a
\* task that ended on a route denial or a route failure asked for no owm
\* budget; and after a failed Route Client call the route unit is still
\* counted and logged.
BudgetUsePerTask ==
  \A j \in DOMAIN jobs :
    LET tid == jobs[j].tid IN
    /\ jobs[j].route_consumes <= 1
    /\ jobs[j].owm_consumes <= 1
    /\ jobs[j].route_approved + jobs[j].route_denied <= jobs[j].route_consumes
    /\ jobs[j].owm_approved + jobs[j].owm_denied <= jobs[j].owm_consumes
    /\ jobs[j].route_calls <= jobs[j].route_approved
    /\ jobs[j].owm_consumes = 1
       => \/ jobs[j].route_consumes = 0 /\ jobs[j].snap.duration_s # NULL
          \/ /\ jobs[j].route_approved = 1
             /\ jobs[j].route_calls = 1
             /\ EventsAt(tid, "recalc_error", "route", j) = {}
    /\ (jobs[j].route_denied = 1 \/ EventsAt(tid, "recalc_error", "route", j) # {})
       => /\ jobs[j].owm_consumes = 0
          /\ EventsAt(tid, "budget_consume", "owm", j) = {}
          /\ EventsAt(tid, "budget_denied", "owm", j) = {}
    /\ EventsAt(tid, "recalc_error", "route", j) # {}
       => /\ jobs[j].route_approved = 1
          /\ Cardinality(EventsAt(tid, "budget_consume", "route", j)) = 1
          /\ TripCounter(tid, "route") >= 1
          /\ \E ref \in DOMAIN api_usage_daily :
               ref[2] = "route" /\ api_usage_daily[ref] >= 1

\* A task has ended on a failed Route Client call: it was charged one route
\* unit and asked for no owm budget.
RouteUnitChargedOnFailure ==
  \E j \in DOMAIN jobs :
    /\ jobs[j].outcome = "route_error"
    /\ jobs[j].route_approved = 1
    /\ jobs[j].owm_consumes = 0
    /\ TripCounter(jobs[j].tid, "route") = 1

\* Severities in hundredths over the whole of [0, 1].
AllSeverities == 0..100

\* C26 (risk bounds, late trips are red): for every severity in [0, 1] the
\* risk is red with pct >= 70 when the slack is negative, never green when
\* the slack is under 7200 s, and pct lies in 10..99; every computed trip
\* shows the same; and a task that completed without a budget denial for a
\* trip whose ETA is after its deadline stored next_calc_at = now + the
\* red interval of the trip's policy mode.
LateIsRed ==
  /\ \A slack \in Slacks, sev \in AllSeverities :
       LET r == risk(slack, 0, sev) IN
       /\ slack < 0 => (r.status = RED /\ r.pct >= 70)
       /\ slack < 7200 => r.status # GREEN
       /\ r.pct \in 10..99
  /\ \A tid \in DOMAIN trips :
       trips[tid].delay_risk_pct # NULL =>
         LET row == trips[tid]
             slack == row.deadline_at - Val(row.eta_at)
         IN  /\ slack < 0 => (row.status = Some(RED) /\ Val(row.delay_risk_pct) >= 70)
             /\ slack < 7200 => row.status # Some(GREEN)
             /\ Val(row.delay_risk_pct) \in 10..99
  /\ \A j \in DOMAIN jobs :
       (/\ jobs[j].outcome = "ok"
        /\ ~jobs[j].budget_limited
        /\ trips[jobs[j].tid].eta_at # NULL
        /\ Val(trips[jobs[j].tid].eta_at) > trips[jobs[j].tid].deadline_at)
       => LET row == trips[jobs[j].tid] IN
          /\ jobs[j].wrote_next = Some(jobs[j].now + ClaimedInterval[row.policy_mode][RED])
          /\ row.next_calc_at = jobs[j].wrote_next

\* A trip one second late under clear weather was computed red at 70 and
\* its next calculation is one red interval after the task's start.
LateTripScheduledRed ==
  \E j \in DOMAIN jobs :
    LET row == trips[jobs[j].tid] IN
    /\ jobs[j].outcome = "ok"
    /\ ~jobs[j].budget_limited
    /\ row.eta_at # NULL
    /\ row.deadline_at - Val(row.eta_at) = -1
    /\ row.delay_risk_pct = Some(70)
    /\ row.status = Some(RED)
    /\ row.policy_mode = "conservative"
    /\ row.next_calc_at = Some(jobs[j].now + 480)

=============================================================================
